---- MODULE Spec2Model ----
(***************************************************************************)
(* A model of the segregated-fits allocator of src/mm.c.                   *)
(*                                                                         *)
(* The heap is a word-addressed memory: mem maps the byte address of every *)
(* word that has been written (by the allocator or by the client) to the   *)
(* value it holds.  A word nobody has written yet holds an indeterminate   *)
(* value and is simply absent from DOMAIN mem.  Sizes and addresses are in *)
(* bytes, as in the source.                                                *)
(***************************************************************************)
EXTENDS Integers, Sequences, FiniteSets, TLC

VARIABLES mem, mem_brk, heap_ptr, live, last, hist, calls, cycle

vars == <<mem, mem_brk, heap_ptr, live, last, hist, calls, cycle>>

(***************************************************************************)
(* Bounds of the model.                                                    *)
(***************************************************************************)
\* bytes the memory system can hand out in total before mem_sbrk fails
MaxHeap == 4500
\* how many pointers the client holds at the same time
MaxLive == 3
\* how many calls and stores the client makes
MaxCalls == 5

(***************************************************************************)
(* Constants and macros, mm.c lines 54-88.                                 *)
(***************************************************************************)
ALIGNMENT == 8
WSIZE == 8
DSIZE == 2 * WSIZE
CHUNKSIZE == 4096 + DSIZE
INITSIZE == 128 + DSIZE
LISTSIZE == 16
THRESHOLD == 7
NULL == 0

\* first address of the region the memory system manages
mem_start_brk == 4096

\* ALIGN to half a word
ALIGN_half(size) == ((size + 3) \div 4) * 4

ALIGN(size) == ((size + (ALIGNMENT - 1)) \div ALIGNMENT) * ALIGNMENT

MAX(x, y) == IF x > y THEN x ELSE y

\* size | alloc
PACK(size, alloc) == IF size % 2 = 1 THEN size ELSE size + alloc

GET(s, p) == s.mem[p]

PUT(s, p, val) == [s EXCEPT !.mem = (p :> val) @@ s.mem]

GET_SIZE(s, p) == GET(s, p) - (GET(s, p) % 8)

GET_ALLOC(s, p) == GET(s, p) % 2

HDRP(bp) == bp - WSIZE

FTRP(s, bp) == bp + GET_SIZE(s, HDRP(bp)) - DSIZE

NEXT_BLKP(s, bp) == bp + GET_SIZE(s, bp - WSIZE)

PREV_BLKP(s, bp) == bp - GET_SIZE(s, bp - DSIZE)

PRED_BLKP(s, bp) == GET(s, bp)

SUCC_BLKP(s, bp) == GET(s, bp + WSIZE)

freelists(s, index) == s.heap_ptr - (LISTSIZE + 1 - index) * WSIZE

(***************************************************************************)
(* The memory system (memlib): grow the heap by incr bytes.  grant is the  *)
(* memory system's answer when the request is within its limit s.max.      *)
(***************************************************************************)
mem_sbrk(s, incr, grant) ==
    IF grant /\ (s.brk + incr) - mem_start_brk <= s.max
    THEN [s |-> [s EXCEPT !.brk = s.brk + incr, !.sbrk = "ok"], ret |-> s.brk]
    ELSE [s |-> [s EXCEPT !.sbrk = "fail"], ret |-> -1]

(***************************************************************************)
(* Helper functions, mm.c lines 272-493.                                   *)
(***************************************************************************)
\* align_size without the room for the footer word
align_size_short(size) ==
    IF size <= DSIZE THEN 2 * DSIZE ELSE ALIGN(size + WSIZE)

align_size(size) ==
    IF size <= DSIZE THEN 2 * DSIZE ELSE ALIGN(size + DSIZE)

\* the loop of index_of that stops only at a bound larger than the size
RECURSIVE index_of_loop_strict(_, _, _)
index_of_loop_strict(size, curr_size, index) ==
    IF curr_size < (4 * WSIZE) * (2 ^ (LISTSIZE - 1)) /\ ~(curr_size > size)
    THEN index_of_loop_strict(size, curr_size * 2, index + 1)
    ELSE index

RECURSIVE index_of_loop(_, _, _)
index_of_loop(size, curr_size, index) ==
    IF curr_size < (4 * WSIZE) * (2 ^ (LISTSIZE - 1)) /\ ~(curr_size >= size)
    THEN index_of_loop(size, curr_size * 2, index + 1)
    ELSE index

index_of(size) == index_of_loop(size, 4 * WSIZE, 0)

\* the walk of add_free that runs to the tail whatever the sizes are
RECURSIVE add_free_walk_tail(_, _, _, _)
add_free_walk_tail(s, size, pred_ptr, curr_ptr) ==
    IF curr_ptr # NULL
    THEN add_free_walk_tail(s, size, curr_ptr, SUCC_BLKP(s, curr_ptr))
    ELSE [pred_ptr |-> pred_ptr, curr_ptr |-> curr_ptr]

RECURSIVE add_free_walk(_, _, _, _)
add_free_walk(s, size, pred_ptr, curr_ptr) ==
    IF curr_ptr # NULL /\ size > GET_SIZE(s, HDRP(curr_ptr))
    THEN add_free_walk(s, size, curr_ptr, SUCC_BLKP(s, curr_ptr))
    ELSE [pred_ptr |-> pred_ptr, curr_ptr |-> curr_ptr]

add_free(s, bp, size) ==
    LET index == index_of(size)
        head  == GET(s, freelists(s, index))
        w     == add_free_walk(s, size, head, head)
        pred_ptr == w.pred_ptr
        curr_ptr == w.curr_ptr
    IN  IF head = 0
        THEN PUT(PUT(PUT(s, bp, NULL), bp + WSIZE, NULL), freelists(s, index), bp)
        ELSE IF curr_ptr = NULL
        THEN PUT(PUT(PUT(s, bp, pred_ptr), bp + WSIZE, NULL), pred_ptr + WSIZE, bp)
        ELSE IF curr_ptr = head
        THEN PUT(PUT(PUT(PUT(s, bp, NULL), bp + WSIZE, curr_ptr), curr_ptr, bp),
                 freelists(s, index), bp)
        ELSE PUT(PUT(PUT(PUT(s, bp, pred_ptr), bp + WSIZE, curr_ptr), curr_ptr, bp),
                 pred_ptr + WSIZE, bp)

pop_free(s, bp) ==
    LET size  == GET_SIZE(s, HDRP(bp))
        index == index_of(size)
    IN  IF PRED_BLKP(s, bp) = NULL
        THEN IF SUCC_BLKP(s, bp) = NULL
             THEN PUT(s, freelists(s, index), 0)
             ELSE PUT(PUT(s, freelists(s, index), SUCC_BLKP(s, bp)),
                      SUCC_BLKP(s, bp), NULL)
        ELSE IF SUCC_BLKP(s, bp) = NULL
             THEN PUT(s, PRED_BLKP(s, bp) + WSIZE, NULL)
             ELSE PUT(PUT(s, PRED_BLKP(s, bp) + WSIZE, SUCC_BLKP(s, bp)),
                      SUCC_BLKP(s, bp), PRED_BLKP(s, bp))

\* the stores of the source, each on the state its predecessor left
put_hdr(s, bp, val) == PUT(s, HDRP(bp), val)

put_ftr(s, bp, val) == PUT(s, FTRP(s, bp), val)

put_next_hdr(s, bp, val) == PUT(s, HDRP(NEXT_BLKP(s, bp)), val)

put_next_ftr(s, bp, val) == PUT(s, FTRP(s, NEXT_BLKP(s, bp)), val)

put_prev_hdr(s, bp, val) == PUT(s, HDRP(PREV_BLKP(s, bp)), val)

\* coalesce, lines 326-332: the previous block is free
coalesce_prev_tags(s, bp, size0) ==
    LET size == size0 + GET_SIZE(s, HDRP(PREV_BLKP(s, bp)))
        s1   == put_prev_hdr(put_ftr(s, bp, PACK(size, 0)), bp, PACK(size, 0))
    IN  [s |-> s1, bp |-> PREV_BLKP(s1, bp), size |-> size]

\* coalesce that never looks at the previous block
coalesce_prev_never(s, bp, size, prev_free) == [s |-> s, bp |-> bp, size |-> size]

coalesce_prev(s, bp, size, prev_free) ==
    IF prev_free
    THEN coalesce_prev_tags(pop_free(s, PREV_BLKP(s, bp)), bp, size)
    ELSE [s |-> s, bp |-> bp, size |-> size]

\* coalesce, lines 335-340: the next block is free
coalesce_next_tags(s, bp, size0) ==
    LET size == size0 + GET_SIZE(s, HDRP(NEXT_BLKP(s, bp)))
    IN  [s |-> put_hdr(put_next_ftr(s, bp, PACK(size, 0)), bp, PACK(size, 0)),
         bp |-> bp, size |-> size]

\* coalesce that never looks at the next block
coalesce_next_never(c, next_free) == c

coalesce_next(c, next_free) ==
    IF next_free
    THEN coalesce_next_tags(pop_free(c.s, NEXT_BLKP(c.s, c.bp)), c.bp, c.size)
    ELSE c

\* coalesce, lines 342-343
coalesce_end(c) == [s |-> add_free(c.s, c.bp, c.size), bp |-> c.bp]

coalesce(s, bp) ==
    LET prev_free == GET_ALLOC(s, HDRP(PREV_BLKP(s, bp))) = 0
        next_free == GET_ALLOC(s, HDRP(NEXT_BLKP(s, bp))) = 0
        size      == GET_SIZE(s, HDRP(bp))
    IN  IF ~prev_free /\ ~next_free
        THEN [s |-> s, bp |-> bp]
        ELSE coalesce_end(
               coalesce_next(
                 coalesce_prev(pop_free(s, bp), bp, size, prev_free),
                 next_free))

\* extend_heap, lines 299-306: mem_sbrk has returned bp
extend_heap_new(s, bp, size) ==
    coalesce(
      add_free(
        put_next_hdr(
          put_ftr(put_hdr(s, bp, PACK(size, 0)), bp, PACK(size, 0)),
          bp, PACK(0, 1)),
        bp, size),
      bp)

\* extend_heap that tags the new block before it looks at mem_sbrk's answer
extend_heap_early(s, size0, grant) ==
    LET size == ALIGN(size0)
        r    == mem_sbrk(s, size, grant)
    IN  IF r.ret = -1
        THEN [s |-> PUT(r.s, HDRP(s.brk), PACK(size, 0)), bp |-> NULL]
        ELSE extend_heap_new(r.s, r.ret, size)

extend_heap(s, size0, grant) ==
    LET size == ALIGN(size0)
        r    == mem_sbrk(s, size, grant)
    IN  IF r.ret = -1
        THEN [s |-> r.s, bp |-> NULL]
        ELSE extend_heap_new(r.s, r.ret, size)

\* place_fb that writes the two headers only
place_fb_hdrs(s, bp, fsize, bsize, alloc) ==
    put_next_hdr(put_hdr(s, bp, PACK(fsize, alloc)), bp, PACK(bsize, 1 - alloc))

place_fb(s, bp, fsize, bsize, alloc) ==
    put_next_ftr(
      put_next_hdr(
        put_ftr(put_hdr(s, bp, PACK(fsize, alloc)), bp, PACK(fsize, alloc)),
        bp, PACK(bsize, 1 - alloc)),
      bp, PACK(bsize, 1 - alloc))

add_free_next(s, bp, size) == add_free(s, NEXT_BLKP(s, bp), size)

return_next(s, bp) == [s |-> s, bp |-> NEXT_BLKP(s, bp)]

\* place that tags a block it does not split with the size asked for
place_cases_short(s, bp, size, total_size, rem_size) ==
    IF rem_size < 4 * WSIZE
    THEN [s |-> put_ftr(put_hdr(s, bp, PACK(size, 1)), bp, PACK(size, 1)),
          bp |-> bp]
    ELSE IF rem_size >= THRESHOLD * size
    THEN [s |-> add_free_next(place_fb(s, bp, size, rem_size, 1), bp, rem_size),
          bp |-> bp]
    ELSE return_next(add_free(place_fb(s, bp, rem_size, size, 0), bp, rem_size), bp)

\* place that puts the payload in front whenever it splits
place_cases_front(s, bp, size, total_size, rem_size) ==
    IF rem_size < 4 * WSIZE
    THEN [s |-> put_ftr(put_hdr(s, bp, PACK(total_size, 1)), bp, PACK(total_size, 1)),
          bp |-> bp]
    ELSE [s |-> add_free_next(place_fb(s, bp, size, rem_size, 1), bp, rem_size),
          bp |-> bp]

\* place, lines 365-387: bp has been unlinked
place_cases(s, bp, size, total_size, rem_size) ==
    IF rem_size < 4 * WSIZE
    THEN [s |-> put_ftr(put_hdr(s, bp, PACK(total_size, 1)), bp, PACK(total_size, 1)),
          bp |-> bp]
    ELSE IF rem_size >= THRESHOLD * size
    THEN [s |-> add_free_next(place_fb(s, bp, size, rem_size, 1), bp, rem_size),
          bp |-> bp]
    ELSE return_next(add_free(place_fb(s, bp, rem_size, size, 0), bp, rem_size), bp)

\* place that leaves bp in its free list
place_linked(s, bp, size) ==
    LET total_size == GET_SIZE(s, HDRP(bp))
    IN  place_cases(s, bp, size, total_size, total_size - size)

place(s, bp, size) ==
    LET total_size == GET_SIZE(s, HDRP(bp))
    IN  place_cases(pop_free(s, bp), bp, size, total_size, total_size - size)

(***************************************************************************)
(* The facade, mm.c lines 116-262.  Every function returns the state it    *)
(* leaves and, as bp, the pointer it returns.                              *)
(***************************************************************************)
RECURSIVE init_lists(_, _, _)
init_lists(s, base, i) ==
    IF i < LISTSIZE + 1
    THEN init_lists(PUT(s, base + i * WSIZE, 0), base, i + 1)
    ELSE s

set_heap_ptr(s, p) == [s EXCEPT !.heap_ptr = p]

\* mm_init, lines 127-149: mem_sbrk has returned base
mm_init_heap(s, base, grant) ==
    extend_heap(
      set_heap_ptr(
        init_lists(
          PUT(PUT(PUT(PUT(s, base, 0),
                      base + (LISTSIZE + 1) * WSIZE, PACK(DSIZE, 1)),
                  base + (LISTSIZE + 2) * WSIZE, PACK(DSIZE, 1)),
              base + (LISTSIZE + 3) * WSIZE, PACK(0, 1)),
          base, 1),
        base + (LISTSIZE + 2) * WSIZE),
      INITSIZE, grant)

mm_init_result(e) == [s |-> e.s, ret |-> IF e.bp = NULL THEN -1 ELSE 0]

mm_init(s, grant) ==
    LET r == mem_sbrk(s, (LISTSIZE + 4) * WSIZE, grant)
    IN  IF r.ret = -1
        THEN [s |-> r.s, ret |-> -1]
        ELSE mm_init_result(mm_init_heap(r.s, r.ret, grant))

RECURSIVE malloc_scan(_, _, _)
malloc_scan(s, size, index) ==
    IF index < LISTSIZE
    THEN IF GET(s, freelists(s, index)) # 0
            /\ GET_SIZE(s, HDRP(GET(s, freelists(s, index)))) > size
         THEN GET(s, freelists(s, index))
         ELSE malloc_scan(s, size, index + 1)
    ELSE NULL

\* mm_malloc, lines 167-182: the block to place the payload in
mm_malloc_find(s, size, grant) ==
    LET bp == malloc_scan(s, size, 0)
    IN  IF bp = NULL
        THEN extend_heap(s, MAX(size, CHUNKSIZE), grant)
        ELSE [s |-> s, bp |-> bp]

mm_malloc_place(e, size) ==
    IF e.bp = NULL THEN e ELSE place(e.s, e.bp, size)

mm_malloc(s, size0, grant) ==
    IF size0 = 0
    THEN [s |-> s, bp |-> NULL]
    ELSE mm_malloc_place(mm_malloc_find(s, align_size(size0), grant),
                         align_size(size0))

mm_free(s, bp) ==
    LET size == GET_SIZE(s, HDRP(bp))
    IN  coalesce(
          add_free(
            put_ftr(put_hdr(s, bp, PACK(size, 0)), bp, PACK(size, 0)),
            bp, size),
          bp).s

(***************************************************************************)
(* The state of the program as one record, and back.                       *)
(***************************************************************************)
Cur == [mem |-> mem, brk |-> mem_brk, heap_ptr |-> heap_ptr, sbrk |-> "none",
        max |-> MaxHeap]

Empty == [mem |-> << >>, brk |-> mem_start_brk, heap_ptr |-> NULL, sbrk |-> "none",
          max |-> MaxHeap]

Install(s) ==
    /\ mem' = s.mem
    /\ mem_brk' = s.brk
    /\ heap_ptr' = s.heap_ptr

(***************************************************************************)
(* mm_realloc, mm.c lines 219-262.  Copying to a null destination is       *)
(* undefined behaviour: ub picks whether the process traps there ("trap")  *)
(* or the copy is without effect and the call goes on ("skip").  The field *)
(* ub of the result says which of the two happened, "none" if neither.     *)
(***************************************************************************)
Written(s, a) == a \in DOMAIN s.mem

\* memcpy(dst, src, n) over disjoint regions; an indeterminate source word
\* leaves an indeterminate destination word
memcpy(s, dst, src, n) ==
    LET offs    == {k * WSIZE : k \in 0 .. (n \div WSIZE) - 1}
        target  == {dst + o : o \in offs}
        defined == {dst + o : o \in {x \in offs : Written(s, src + x)}}
    IN  [s EXCEPT !.mem = [a \in (DOMAIN s.mem \ target) \cup defined |->
                              IF a \in defined THEN s.mem[src + (a - dst)]
                              ELSE s.mem[a]]]

\* mm_realloc, lines 243-245
realloc_merge(s, bp, size, rem_size) ==
    [s |-> put_ftr(put_hdr(pop_free(s, NEXT_BLKP(s, bp)), bp, PACK(size + rem_size, 1)),
                   bp, PACK(size + rem_size, 1)),
     bp |-> bp, ub |-> "none"]

\* mm_realloc, lines 238-240
realloc_grown(e, bp, size, rem_size) ==
    IF e.bp = NULL
    THEN [s |-> e.s, bp |-> NULL, ub |-> "none"]
    ELSE realloc_merge(e.s, bp, size, rem_size)

\* the in-place path that always grows the heap by CHUNKSIZE
realloc_in_place_chunk(s, bp, size, grant) ==
    LET rem_size == GET_SIZE(s, HDRP(bp)) + GET_SIZE(s, HDRP(NEXT_BLKP(s, bp))) - size
    IN  IF rem_size < 0
        THEN realloc_grown(extend_heap(s, CHUNKSIZE, grant), bp, size,
                           rem_size + CHUNKSIZE)
        ELSE realloc_merge(s, bp, size, rem_size)

\* mm_realloc, lines 235-246.  rem_size is an int; the sizes of this model
\* are far below 2^31, where the conversion from size_t changes nothing.
realloc_in_place(s, bp, size, grant) ==
    LET rem_size == GET_SIZE(s, HDRP(bp)) + GET_SIZE(s, HDRP(NEXT_BLKP(s, bp))) - size
    IN  IF rem_size < 0
        THEN realloc_grown(extend_heap(s, MAX(CHUNKSIZE, -rem_size), grant), bp, size,
                           rem_size + MAX(CHUNKSIZE, -rem_size))
        ELSE realloc_merge(s, bp, size, rem_size)

\* the copy of one word only
realloc_copy_word(m, bp) ==
    IF m.bp = NULL THEN m.s ELSE memcpy(m.s, m.bp, bp, WSIZE)

realloc_copy(m, bp) ==
    IF m.bp = NULL THEN m.s ELSE memcpy(m.s, m.bp, bp, GET_SIZE(m.s, HDRP(bp)))

\* mm_realloc, lines 250-253: mm_malloc has returned m.bp
realloc_move(m, bp, ub) ==
    IF m.bp = NULL /\ ub = "trap"
    THEN [s |-> m.s, bp |-> NULL, ub |-> "trap"]
    ELSE [s |-> mm_free(realloc_copy(m, bp), bp), bp |-> m.bp,
          ub |-> IF m.bp = NULL THEN "skip" ELSE "none"]

\* mm_realloc that shrinks in place: it splits the tail off a block that
\* is larger than the request by a whole block
mm_realloc_shrink(s, bp, size0, grant, ub) ==
    LET size      == align_size(size0)
        rest      == GET_SIZE(s, HDRP(bp)) - size
        next_epi  == GET_SIZE(s, HDRP(NEXT_BLKP(s, bp))) = 0
        next_free == GET_ALLOC(s, HDRP(NEXT_BLKP(s, bp))) = 0
    IN  IF size0 = 0
        THEN [s |-> s, bp |-> NULL, ub |-> "none"]
        ELSE IF GET_SIZE(s, HDRP(bp)) >= size
        THEN IF rest >= 4 * WSIZE
             THEN [s |-> add_free_next(place_fb(s, bp, size, rest, 1), bp, rest),
                   bp |-> bp, ub |-> "none"]
             ELSE [s |-> s, bp |-> bp, ub |-> "none"]
        ELSE IF next_free \/ next_epi
        THEN realloc_in_place(s, bp, size, grant)
        ELSE realloc_move(mm_malloc(s, size, grant), bp, ub)

mm_realloc(s, bp, size0, grant, ub) ==
    LET size      == align_size(size0)
        next_epi  == GET_SIZE(s, HDRP(NEXT_BLKP(s, bp))) = 0
        next_free == GET_ALLOC(s, HDRP(NEXT_BLKP(s, bp))) = 0
    IN  IF size0 = 0
        THEN [s |-> s, bp |-> NULL, ub |-> "none"]
        ELSE IF GET_SIZE(s, HDRP(bp)) >= size
        THEN [s |-> s, bp |-> bp, ub |-> "none"]
        ELSE IF next_free \/ next_epi
        THEN realloc_in_place(s, bp, size, grant)
        ELSE realloc_move(mm_malloc(s, size, grant), bp, ub)

(***************************************************************************)
(* Reading the heap: the physical walk and the free lists.  These read     *)
(* only words that have been written, so they are defined on any heap.     *)
(***************************************************************************)
Range(f) == {f[i] : i \in DOMAIN f}

RECURSIVE walk(_, _, _)
walk(s, bp, acc) ==
    IF \/ ~Written(s, HDRP(bp))
       \/ HDRP(bp) >= s.brk
       \/ GET_SIZE(s, HDRP(bp)) = 0
    THEN [blocks |-> acc, end |-> bp]
    ELSE walk(s, NEXT_BLKP(s, bp), Append(acc, bp))

\* the blocks between prologue and epilogue, in address order
Blocks(s) == walk(s, s.heap_ptr + DSIZE, << >>).blocks

WalkEnd(s) == walk(s, s.heap_ptr + DSIZE, << >>).end

RECURSIVE list_walk(_, _, _)
list_walk(s, bp, acc) ==
    IF bp = NULL \/ ~Written(s, bp + WSIZE) \/ bp \in Range(acc)
    THEN acc
    ELSE list_walk(s, SUCC_BLKP(s, bp), Append(acc, bp))

\* the blocks of free list index, from the head to the tail
FreeList(s, index) == list_walk(s, GET(s, freelists(s, index)), << >>)

Listed(s) == UNION {Range(FreeList(s, i)) : i \in 0 .. LISTSIZE - 1}

Size(s, bp) == GET_SIZE(s, HDRP(bp))

IsFree(s, bp) == GET_ALLOC(s, HDRP(bp)) = 0

FreeBlocks(s) == {bp \in Range(Blocks(s)) : IsFree(s, bp)}

\* The boundary tags describe a chain of blocks that ends at the epilogue,
\* and the free lists hold the free blocks of that chain.  On such a heap
\* every word the facade reads has been written.
Traversable(s) ==
    /\ HDRP(WalkEnd(s)) = s.brk - WSIZE
    /\ Written(s, HDRP(WalkEnd(s)))
    /\ GET(s, HDRP(WalkEnd(s))) = PACK(0, 1)
    /\ \A bp \in Range(Blocks(s)) :
          /\ Size(s, bp) >= 2 * DSIZE
          /\ Written(s, FTRP(s, bp))
          /\ GET(s, FTRP(s, bp)) = GET(s, HDRP(bp))
    /\ Listed(s) = FreeBlocks(s)

(***************************************************************************)
(* The client.  live maps every pointer the client holds to the number of  *)
(* bytes it asked for; last describes the last call; hist is the list of   *)
(* pointers returned so far while the calls since mm_init follow           *)
(* Scenario B (three allocations, release of the second, one allocation);  *)
(* cycle describes the cycles p = mm_malloc(n); mm_free(p) made so far.    *)
(***************************************************************************)
Sizes == {0, 16, 17, 100, 500}

Data == {171}

Off == << -1 >>

\* no cycle of allocation and release is under way
NoCycle == [n |-> 0, p |-> NULL, count |-> 0, grown |-> 0, ext |-> FALSE,
            before |-> << >>]

ScenarioB == << [op |-> "malloc", arg |-> 16], [op |-> "malloc", arg |-> 16],
               [op |-> "malloc", arg |-> 16], [op |-> "free", arg |-> 2],
               [op |-> "malloc", arg |-> 16] >>

Follow(op, bp, size, ret) ==
    IF hist # Off /\ Len(hist) < Len(ScenarioB)
    THEN LET step == ScenarioB[Len(hist) + 1]
         IN  IF step.op = op
                /\ (op = "malloc" => step.arg = size)
                /\ (op = "free" => hist[step.arg] = bp)
             THEN Append(hist, ret)
             ELSE Off
    ELSE Off

\* A call is made while the process is alive (no undefined behaviour has
\* happened) and the heap can be traversed: on any other heap the facade
\* reads words of indeterminate value.  Under Spec every reachable heap is
\* traversable; under SpecR the heap a faulty mm_realloc leaves is reached
\* and is the end of the run.
Running ==
    /\ last.ub = "none"
    /\ Traversable(Cur)
    /\ calls < MaxCalls
    /\ calls' = calls + 1

Init ==
    /\ \E r \in {mm_init(Empty, TRUE)} :
         /\ r.ret = 0
         /\ mem = r.s.mem
         /\ mem_brk = r.s.brk
         /\ heap_ptr = r.s.heap_ptr
    /\ live = << >>
    /\ last = [op |-> "init", bp |-> NULL, size |-> 0, ret |-> 0,
               sbrk |-> "ok", ub |-> "none"]
    /\ hist = << >>
    /\ calls = 0
    /\ cycle = NoCycle

Malloc ==
    /\ Running
    /\ Cardinality(DOMAIN live) < MaxLive
    /\ \E n \in Sizes, grant \in BOOLEAN :
         \E r \in {mm_malloc(Cur, n, grant)} :
             /\ Install(r.s)
             /\ live' = IF r.bp = NULL THEN live ELSE (r.bp :> n) @@ live
             /\ last' = [op |-> "malloc", bp |-> NULL, size |-> n, ret |-> r.bp,
                         sbrk |-> r.s.sbrk, ub |-> "none"]
             /\ hist' = Follow("malloc", NULL, n, r.bp)
    /\ UNCHANGED cycle

Free ==
    /\ Running
    /\ \E p \in DOMAIN live :
         /\ \E s \in {mm_free(Cur, p)} : Install(s)
         /\ live' = [q \in DOMAIN live \ {p} |-> live[q]]
         /\ last' = [op |-> "free", bp |-> p, size |-> 0, ret |-> NULL,
                     sbrk |-> "none", ub |-> "none"]
         /\ hist' = Follow("free", p, 0, NULL)
    /\ UNCHANGED cycle

\* the client fills the bytes it asked for
Store ==
    /\ Running
    /\ \E p \in DOMAIN live, v \in Data :
         /\ live[p] > 0
         /\ mem' = [a \in DOMAIN mem \cup
                             {p + k * WSIZE : k \in 0 .. (ALIGN(live[p]) \div WSIZE) - 1} |->
                       IF a >= p /\ a < p + ALIGN(live[p]) THEN v ELSE mem[a]]
         /\ mem' # mem
         /\ last' = [op |-> "store", bp |-> p, size |-> live[p], ret |-> NULL,
                     sbrk |-> "none", ub |-> "none"]
         /\ hist' = Off
         /\ UNCHANGED <<mem_brk, heap_ptr, live, cycle>>

Realloc ==
    /\ Running
    /\ \E p \in DOMAIN live, n \in Sizes, grant \in BOOLEAN, ub \in {"trap", "skip"} :
         \E r \in {mm_realloc(Cur, p, n, grant, ub)} :
             /\ Install(r.s)
             /\ live' = IF r.bp = NULL \/ r.bp = p
                        THEN IF r.bp = p THEN (p :> n) @@ live ELSE live
                        ELSE (r.bp :> n) @@ [q \in DOMAIN live \ {p} |-> live[q]]
             /\ last' = [op |-> "realloc", bp |-> p, size |-> n, ret |-> r.bp,
                         sbrk |-> r.s.sbrk, ub |-> r.ub]
             /\ hist' = Off
    /\ UNCHANGED cycle

Next == Malloc \/ Free \/ Store

Spec == Init /\ [][Next]_vars

NextR == Malloc \/ Free \/ Store \/ Realloc

SpecR == Init /\ [][NextR]_vars

(***************************************************************************)
(* Properties.                                                             *)
(***************************************************************************)
\* the value of the word at a, -1 when nobody has written it
Word(m, a) == IF a \in DOMAIN m THEN m[a] ELSE -1

\* the addresses from the header of block bp to the end of its footer
Extent(s, bp) == {a \in HDRP(bp) .. (bp + Size(s, bp) - WSIZE - 1) : a % WSIZE = 0}

\* the free block that holds address a, if any
FreeHolding(s, a) == {b \in FreeBlocks(s) : HDRP(b) <= a /\ a < b + Size(s, b) - WSIZE}

\* C1: a successful mm_malloc(n), n > 0, returns a block of the physical walk
\* that is marked allocated, is in no free list and has at least n bytes
\* between its header and its footer; the n bytes touch no other block.
C1_MallocBlock ==
    (last.op = "malloc" /\ last.size > 0 /\ last.ret # NULL) =>
        /\ last.ret \in Range(Blocks(Cur))
        /\ ~IsFree(Cur, last.ret)
        /\ last.ret \notin Listed(Cur)
        /\ Size(Cur, last.ret) - DSIZE >= last.size
        /\ last.ret + last.size <= FTRP(Cur, last.ret)
        /\ \A b \in Range(Blocks(Cur)) \ {last.ret} :
              \A a \in Extent(Cur, b) : a + WSIZE <= last.ret \/ a >= last.ret + last.size

C1_Witness ==
    /\ last.op = "malloc" /\ last.size > 0 /\ last.ret # NULL
    /\ last.sbrk = "ok"
    /\ Cardinality(DOMAIN live) >= 2

\* C2 as stated: a mm_realloc(p, size), size > 0, that returns null because
\* the heap could not grow leaves the heap as it was before the call.
C2_FailedReallocKeepsHeap ==
    [][(last'.op = "realloc" /\ last'.size > 0 /\ last'.ret = NULL
          /\ last'.sbrk = "fail" /\ last'.ub # "trap")
        => (mem' = mem /\ mem_brk' = mem_brk /\ heap_ptr' = heap_ptr)]_vars

\* C3 as stated: mm_realloc(p, 0) returns null and leaves the bytes of p in
\* a free block that is linked into a free list.
C3_ReallocZeroFrees ==
    (last.op = "realloc" /\ last.size = 0) =>
        /\ last.ret = NULL
        /\ FreeHolding(Cur, last.bp) # {}
        /\ FreeHolding(Cur, last.bp) \subseteq Listed(Cur)

\* C4 as stated: after a mm_realloc that returns p itself, the block of p
\* covers no other block the client holds and no entry of a free list.
C4_GrownBlockDisjoint ==
    (last.op = "realloc" /\ last.ret # NULL /\ last.ret = last.bp) =>
        /\ \A q \in DOMAIN live \ {last.bp} : HDRP(q) \notin Extent(Cur, last.bp)
        /\ \A b \in Listed(Cur) : HDRP(b) \notin Extent(Cur, last.bp)

\* C5: a successful mm_realloc(p, size) with size larger than the old
\* payload of p returns a pointer at which every word of the old payload
\* that had been written holds the value it held at p before the call.
C5_ReallocKeepsPayload ==
    [][(last'.op = "realloc" /\ last'.ret # NULL
          /\ last'.size > Size(Cur, last'.bp) - DSIZE)
        => \A k \in 0 .. ((Size(Cur, last'.bp) - DSIZE) \div WSIZE) - 1 :
              (last'.bp + k * WSIZE) \in DOMAIN mem =>
                  Word(mem', last'.ret + k * WSIZE) = mem[last'.bp + k * WSIZE]]_vars

C5_Witness ==
    /\ last.op = "realloc" /\ last.ret # NULL /\ last.ret # last.bp
    /\ \A k \in 0 .. 1 : Word(mem, last.ret + k * WSIZE) \in Data

\* C6: mm_realloc(p, size) with 0 < size <= block size of p minus two words
\* returns p and changes no word of the heap and not the heap size.
C6_ReallocFitsUnchanged ==
    [][(last'.op = "realloc" /\ last'.size > 0
          /\ last'.size <= Size(Cur, last'.bp) - DSIZE)
        => (last'.ret = last'.bp /\ mem' = mem /\ mem_brk' = mem_brk
            /\ heap_ptr' = heap_ptr)]_vars

C6_Witness ==
    /\ last.op = "realloc" /\ last.size > 0 /\ last.ret = last.bp
    /\ last.sbrk = "none"
    /\ Size(Cur, last.bp) - DSIZE >= last.size + 4 * WSIZE

\* C7: between calls, no two physically adjacent blocks are both free.
C7_NoAdjacentFree ==
    \A i \in 1 .. Len(Blocks(Cur)) - 1 :
        ~(IsFree(Cur, Blocks(Cur)[i]) /\ IsFree(Cur, Blocks(Cur)[i + 1]))

\* a release whose block was merged with a free block on either side
C7_Witness ==
    /\ last.op = "free"
    /\ \E b \in FreeBlocks(Cur) :
          /\ b < last.bp
          /\ b + Size(Cur, b) > last.bp + Size(Cur, last.bp)

\* C8 as stated: after Scenario B the last allocation returns the address
\* of the released block.
C8_ReuseFreed ==
    (hist # Off /\ Len(hist) = Len(ScenarioB)) => hist[5] = hist[2]

\* C9: between calls the free lists hold exactly the free blocks of the
\* physical walk, each once, each in the list index_of gives for its size.
C9_ListsAreFreeBlocks ==
    /\ Listed(Cur) = FreeBlocks(Cur)
    /\ \A i \in 0 .. LISTSIZE - 1 :
          /\ \A b \in Range(FreeList(Cur, i)) : index_of(Size(Cur, b)) = i
          /\ FreeList(Cur, i) # << >> =>
                SUCC_BLKP(Cur, FreeList(Cur, i)[Len(FreeList(Cur, i))]) = NULL
    /\ \A i, j \in 0 .. LISTSIZE - 1 :
          i # j => Range(FreeList(Cur, i)) \cap Range(FreeList(Cur, j)) = {}

C9_Witness ==
    /\ \E i \in 0 .. LISTSIZE - 1 : Len(FreeList(Cur, i)) >= 2
    /\ \E b \in Range(Blocks(Cur)) : ~IsFree(Cur, b)

\* C10: mm_malloc(n), n > 0, returns null exactly when mem_sbrk failed, and
\* then no word of the heap and not the heap size have changed.
C10_MallocFailure ==
    [][(last'.op = "malloc" /\ last'.size > 0)
        => /\ (last'.ret = NULL) <=> (last'.sbrk = "fail")
           /\ last'.ret = NULL =>
                 (mem' = mem /\ mem_brk' = mem_brk /\ heap_ptr' = heap_ptr)]_vars

C10_Witness ==
    /\ last.op = "malloc" /\ last.size > 0 /\ last.ret = NULL
    /\ last.sbrk = "fail"

RECURSIVE SumSizes(_, _)
SumSizes(s, bps) ==
    IF bps = << >> THEN 0 ELSE Size(s, Head(bps)) + SumSizes(s, Tail(bps))

\* the bytes of the free (alloc = 0) or allocated (alloc = 1) blocks of the walk
BlockBytes(s, alloc) ==
    SumSizes(s, SelectSeq(Blocks(s), LAMBDA bp : GET_ALLOC(s, HDRP(bp)) = alloc))

\* C12: between calls the physical walk ends on the epilogue header, which
\* is the last word of the heap and reads size 0 / allocated; the free
\* bytes, the allocated bytes (prologue included) and LISTSIZE + 2 words add
\* up to the heap size.
C12_WalkReachesEpilogue ==
    /\ HDRP(WalkEnd(Cur)) = mem_brk - WSIZE
    /\ Word(mem, mem_brk - WSIZE) = PACK(0, 1)
    /\ BlockBytes(Cur, 0) + (BlockBytes(Cur, 1) + DSIZE) + (LISTSIZE + 2) * WSIZE
          = mem_brk - mem_start_brk

\* right after a heap growth, with free and allocated blocks in the heap
C12_Witness ==
    /\ last.op = "malloc" /\ last.sbrk = "ok"
    /\ BlockBytes(Cur, 0) > 0
    /\ Len(Blocks(Cur)) >= 3

\* C13: between calls every block of the physical walk has a footer word
\* equal to its header word.
C13_FooterIsHeader ==
    \A bp \in Range(Blocks(Cur)) :
        Word(mem, FTRP(Cur, bp)) = GET(Cur, HDRP(bp))

\* a block that was split by place and one that was merged by coalesce
C13_Witness ==
    /\ last.op = "free"
    /\ \E b \in FreeBlocks(Cur) : b < last.bp /\ last.bp < b + Size(Cur, b)
    /\ \E b \in Range(Blocks(Cur)) : ~IsFree(Cur, b)
    /\ Len(Blocks(Cur)) >= 3

\* C14 as stated: the size of every block is a multiple of the double word,
\* and every payload pointer is a multiple of the double word away from the
\* payload of the first block.
C14_DoubleWordSizes ==
    \A bp \in Range(Blocks(Cur)) :
        /\ Size(Cur, bp) % DSIZE = 0
        /\ (bp - (heap_ptr + DSIZE)) % DSIZE = 0

\* C14 amended: the header of every block holds a multiple of the word
\* (ALIGNMENT) with nothing but the allocated bit in its low three bits, and
\* every payload pointer is a multiple of the word away from the payload of
\* the first block.
C14_WordSizes ==
    \A bp \in Range(Blocks(Cur)) :
        /\ GET(Cur, HDRP(bp)) % ALIGNMENT \in {0, 1}
        /\ Size(Cur, bp) % ALIGNMENT = 0
        /\ (bp - (heap_ptr + DSIZE)) % ALIGNMENT = 0

\* a request whose aligned size is an odd number of words has been served
C14_Witness ==
    /\ last.op = "malloc" /\ last.ret # NULL
    /\ Size(Cur, last.ret) % DSIZE = WSIZE
    /\ \E b \in FreeBlocks(Cur) : Size(Cur, b) % DSIZE = WSIZE

(***************************************************************************)
(* Fill and drain.  The client allocates up to MaxFill blocks, the heap    *)
(* growing when it must, and then releases them in any order.              *)
(***************************************************************************)
MaxFill == 5

SizesL == {17, 25, 33}

Fill ==
    /\ last.op \in {"init", "malloc"}
    /\ Cardinality(DOMAIN live) < MaxFill
    /\ \E n \in SizesL :
         \E r \in {mm_malloc(Cur, n, TRUE)} :
             /\ r.bp # NULL
             /\ Install(r.s)
             /\ live' = (r.bp :> n) @@ live
             /\ last' = [op |-> "malloc", bp |-> NULL, size |-> n, ret |-> r.bp,
                         sbrk |-> r.s.sbrk, ub |-> "none"]
    /\ UNCHANGED <<hist, calls, cycle>>

Drain ==
    /\ \E p \in DOMAIN live :
         /\ \E s \in {mm_free(Cur, p)} : Install(s)
         /\ live' = [q \in DOMAIN live \ {p} |-> live[q]]
         /\ last' = [op |-> "free", bp |-> p, size |-> 0, ret |-> NULL,
                     sbrk |-> "none", ub |-> "none"]
    /\ UNCHANGED <<hist, calls, cycle>>

NextL == Fill \/ Drain

SpecL == Init /\ [][NextL]_vars

\* the sizes of the blocks of a list, from the head to the tail
ListSizes(s, index) == [k \in DOMAIN FreeList(s, index) |-> Size(s, FreeList(s, index)[k])]

\* C15: between calls the header sizes along every free list, from the head
\* to the null tail, never decrease.
C15_ListsAscend ==
    \A i \in 0 .. LISTSIZE - 1 :
        \A k \in 1 .. Len(FreeList(Cur, i)) - 1 :
            ListSizes(Cur, i)[k] <= ListSizes(Cur, i)[k + 1]

\* a list of three blocks of different sizes, the one in the middle put
\* there by the last mm_free
C15_Witness ==
    /\ last.op = "free"
    /\ \E i \in 0 .. LISTSIZE - 1 :
          /\ Len(FreeList(Cur, i)) >= 3
          /\ ListSizes(Cur, i)[1] < ListSizes(Cur, i)[2]
          /\ ListSizes(Cur, i)[2] < ListSizes(Cur, i)[3]
          /\ FreeList(Cur, i)[2] = last.bp

\* C16 as stated: when some block of some free list is larger than the
\* aligned request, mm_malloc serves the request from the free lists and the
\* heap size does not change.
C16_ExtendOnlyWithoutFit ==
    [][(last'.op = "malloc" /\ last'.size > 0
          /\ \E b \in Listed(Cur) : Size(Cur, b) > align_size(last'.size))
        => (last'.ret # NULL /\ last'.sbrk = "none" /\ mem_brk' = mem_brk)]_vars

\* the heap a step leaves
Aft == [mem |-> mem', brk |-> mem_brk', heap_ptr |-> heap_ptr', sbrk |-> "none",
        max |-> MaxHeap]

\* the free block a step of mm_malloc hands to place: the block of the free
\* lists that holds the pointer returned or, after a growth of the heap, the
\* block that ends at the new epilogue
PlacedIn ==
    IF last'.sbrk = "ok"
    THEN IF Blocks(Cur) # << >> /\ IsFree(Cur, Blocks(Cur)[Len(Blocks(Cur))])
         THEN Blocks(Cur)[Len(Blocks(Cur))]
         ELSE mem_brk
    ELSE CHOOSE b \in FreeBlocks(Cur) : b <= last'.ret /\ last'.ret < b + Size(Cur, b)

PlacedTotal ==
    IF last'.sbrk = "ok" THEN mem_brk' - PlacedIn ELSE Size(Cur, PlacedIn)

\* block bp of heap s has the given size and allocated bit in header and footer
Tagged(s, bp, size, alloc) ==
    /\ Word(s.mem, HDRP(bp)) = PACK(size, alloc)
    /\ Word(s.mem, bp + size - DSIZE) = PACK(size, alloc)

\* C17: place(b, s) on a listed free block b of size T >= s unlinks b and
\* (1) if T - s < 4 words marks all T bytes allocated and returns b; (2) else
\* if T - s >= 7 * s makes an allocated block of size s at b, followed by a
\* free block of size T - s, and returns b; (3) otherwise makes a free block
\* of size T - s at b, followed by an allocated block of size s, and returns
\* the second block.  The free remainder is in the list of its size class.
C17_PlaceCases ==
    [][(last'.op = "malloc" /\ last'.ret # NULL) =>
        \E b \in {PlacedIn}, T \in {PlacedTotal}, s \in {align_size(last'.size)} :
            /\ T >= s
            /\ last'.ret \notin Listed(Aft)
            /\ IF T - s < 4 * WSIZE
               THEN /\ last'.ret = b
                    /\ Tagged(Aft, b, T, 1)
               ELSE IF T - s >= THRESHOLD * s
               THEN /\ last'.ret = b
                    /\ Tagged(Aft, b, s, 1)
                    /\ Tagged(Aft, b + s, T - s, 0)
                    /\ (b + s) \in Range(FreeList(Aft, index_of(T - s)))
                    /\ b \notin Listed(Aft)
               ELSE /\ last'.ret = b + (T - s)
                    /\ Tagged(Aft, b, T - s, 0)
                    /\ Tagged(Aft, b + (T - s), s, 1)
                    /\ b \in Range(FreeList(Aft, index_of(T - s)))]_vars

\* the payload was put at the back of a block of the free lists
C17_Witness ==
    /\ last.op = "malloc" /\ last.ret # NULL /\ last.sbrk = "none"
    /\ \E b \in FreeBlocks(Cur) :
          /\ b + Size(Cur, b) = last.ret
          /\ b \in Range(FreeList(Cur, index_of(Size(Cur, b))))
          /\ Size(Cur, b) < THRESHOLD * Size(Cur, last.ret)

(***************************************************************************)
(* The heap checker, mm.c lines 531-635, as a function of the heap: 1 for  *)
(* a heap it accepts, 0 for a heap it reports.                             *)
(***************************************************************************)
\* memlib: the last byte of the heap, and the heap size
mem_heap_hi(s) == s.brk - 1

mem_heapsize(s) == s.brk - mem_start_brk

\* lines 569-583: one free list from block bp on; tally is count,
\* fre_size_explicit and the verdict so far
RECURSIVE check_list(_, _, _)
check_list(s, bp, tally) ==
    IF bp = NULL
    THEN tally
    ELSE IF GET_ALLOC(s, HDRP(bp)) = 1
    THEN [tally EXCEPT !.ret = 0]
    ELSE check_list(s, SUCC_BLKP(s, bp),
                    [tally EXCEPT !.count = @ + 1,
                                  !.fre_size_explicit = @ + GET_SIZE(s, HDRP(bp))])

RECURSIVE check_lists(_, _, _)
check_lists(s, i, tally) ==
    IF i < LISTSIZE /\ tally.ret = 1
    THEN check_lists(s, i + 1, check_list(s, GET(s, freelists(s, i)), tally))
    ELSE tally

\* lines 593-599: the tallies of the walk for block bp
check_block(s, bp, tally) ==
    IF GET_ALLOC(s, HDRP(bp)) = 0
    THEN [tally EXCEPT !.count = @ - 1, !.consec = @ + 1,
                       !.fre_size_implicit = @ + GET_SIZE(s, HDRP(bp))]
    ELSE [tally EXCEPT !.pld_size = @ + GET_SIZE(s, HDRP(bp))]

RECURSIVE check_walk(_, _, _)
\* lines 601-607: the test of consec, its decrement and the next block
check_walk_step(s, bp, tally) ==
    IF tally.consec >= 2
    THEN [tally EXCEPT !.ret = 0]
    ELSE check_walk(s, NEXT_BLKP(s, bp), [tally EXCEPT !.consec = @ - 1])

\* lines 592-608: the physical walk from block bp on
check_walk(s, bp, tally) ==
    IF tally.ret = 1 /\ bp < mem_heap_hi(s)
    THEN check_walk_step(s, bp, check_block(s, bp, tally))
    ELSE tally

\* lines 611-633
check_totals(s, tally) ==
    IF tally.ret = 0 THEN 0
    ELSE IF tally.count < 0 THEN 0
    ELSE IF tally.count > 0 THEN 0
    ELSE IF tally.fre_size_explicit # tally.fre_size_implicit THEN 0
    ELSE IF tally.fre_size_explicit + tally.pld_size + (LISTSIZE + 2) * WSIZE
              > mem_heapsize(s)
    THEN 0
    ELSE 1

mm_check(s) ==
    IF GET_SIZE(s, HDRP(s.heap_ptr)) # DSIZE \/ GET_ALLOC(s, HDRP(s.heap_ptr)) = 0
    THEN 0
    ELSE IF GET_SIZE(s, mem_heap_hi(s) - WSIZE + 1) # 0
            \/ GET_ALLOC(s, mem_heap_hi(s) - WSIZE + 1) = 0
    THEN 0
    ELSE check_totals(s,
           check_walk(s, s.heap_ptr,
             check_lists(s, 0, [count |-> 0, consec |-> 0, pld_size |-> 0,
                                fre_size_explicit |-> 0, fre_size_implicit |-> 0,
                                ret |-> 1])))

(***************************************************************************)
(* The heaps the checker is given: the heap mm_init leaves, followed by up *)
(* to MaxBlocks blocks laid out one behind the other without coalescing.   *)
(* A block is allocated, free and linked into the list of its size class,  *)
(* or free and in no list ("lost").                                        *)
(***************************************************************************)
MaxBlocks == 3

Kinds == {"alloc", "free", "lost"}

BlockSizes == {2 * DSIZE, 3 * DSIZE}

\* a block of the given size at the end of the heap, the epilogue behind it
lay_block(s, bp, size, alloc) ==
    put_next_hdr(
      put_ftr(put_hdr([s EXCEPT !.brk = @ + size], bp, PACK(size, alloc)),
              bp, PACK(size, alloc)),
      bp, PACK(0, 1))

append_block(s, kind, size) ==
    IF kind = "free"
    THEN add_free(lay_block(s, s.brk, size, 0), s.brk, size)
    ELSE lay_block(s, s.brk, size, IF kind = "alloc" THEN 1 ELSE 0)

RECURSIVE build(_, _)
build(s, blocks) ==
    IF blocks = << >>
    THEN s
    ELSE build(append_block(s, Head(blocks).kind, Head(blocks).size), Tail(blocks))

Layouts ==
    UNION {[1 .. n -> [kind : Kinds, size : BlockSizes]] : n \in 1 .. MaxBlocks}

InitK ==
    /\ \E blocks \in Layouts :
         \E s \in {build(mm_init(Empty, TRUE).s, blocks)} :
             /\ mem = s.mem
             /\ mem_brk = s.brk
             /\ heap_ptr = s.heap_ptr
    /\ live = << >>
    /\ last = [op |-> "build", bp |-> NULL, size |-> 0, ret |-> 0,
               sbrk |-> "none", ub |-> "none"]
    /\ hist = Off
    /\ calls = 0
    /\ cycle = NoCycle

\* the checker runs on the heap: ret is its answer
Check ==
    /\ last.op = "build"
    /\ last' = [op |-> "check", bp |-> NULL, size |-> 0, ret |-> mm_check(Cur),
                sbrk |-> "none", ub |-> "none"]
    /\ UNCHANGED <<mem, mem_brk, heap_ptr, live, hist, calls, cycle>>

SpecK == InitK /\ [][Check]_vars

\* two blocks of the walk that touch and are both free
AdjacentFree(s) ==
    \E i \in 1 .. Len(Blocks(s)) - 1 :
        IsFree(s, Blocks(s)[i]) /\ IsFree(s, Blocks(s)[i + 1])

\* C18 as stated: mm_check answers 0 for every heap in which two physically
\* adjacent blocks are both free.
C18_CheckFindsAdjacentFree ==
    (last.op = "check" /\ AdjacentFree(Cur)) => last.ret = 0

(***************************************************************************)
(* Cycles.  After a few calls of mm_malloc and mm_free the client repeats  *)
(* p = mm_malloc(n); mm_free(p) for one n.  The memory system never turns  *)
(* a request down: a run ends where the heap would pass MaxHeapC.  The     *)
(* record cycle holds n, the pointer of the cycle under way, the number of *)
(* cycles begun, how many of them extended the heap, whether the last one  *)
(* did, and the blocks and lists of the heap before its mm_malloc.         *)
(***************************************************************************)
MaxHeapC == 4000000

MaxSetup == 4

MaxCycles == 4

SizesC == {16, 5000, 600000}

CycleSizes == {16, 100, 600144}

Big == [Cur EXCEPT !.max = MaxHeapC]

\* the blocks of the walk with size and allocated bit, and the free lists
Meta(s) ==
    [blocks |-> [k \in DOMAIN Blocks(s) |->
                    <<Blocks(s)[k], Size(s, Blocks(s)[k]), GET_ALLOC(s, HDRP(Blocks(s)[k]))>>],
     lists  |-> [i \in 0 .. LISTSIZE - 1 |-> FreeList(s, i)]]

\* calls are made while the process is alive and the heap can be traversed
Sound == last.ub = "none" /\ Traversable(Cur)

Acquire ==
    /\ cycle = NoCycle
    /\ Sound
    /\ calls < MaxSetup
    /\ Cardinality(DOMAIN live) < MaxLive
    /\ \E n \in SizesC :
         \E r \in {mm_malloc(Big, n, TRUE)} :
             /\ r.bp # NULL
             /\ Install(r.s)
             /\ live' = (r.bp :> n) @@ live
             /\ last' = [op |-> "malloc", bp |-> NULL, size |-> n, ret |-> r.bp,
                         sbrk |-> r.s.sbrk, ub |-> "none"]
    /\ calls' = calls + 1
    /\ UNCHANGED <<hist, cycle>>

Release ==
    /\ cycle = NoCycle
    /\ Sound
    /\ calls < MaxSetup
    /\ \E p \in DOMAIN live :
         /\ \E s \in {mm_free(Big, p)} : Install(s)
         /\ live' = [q \in DOMAIN live \ {p} |-> live[q]]
         /\ last' = [op |-> "free", bp |-> p, size |-> 0, ret |-> NULL,
                     sbrk |-> "none", ub |-> "none"]
    /\ calls' = calls + 1
    /\ UNCHANGED <<hist, cycle>>

CycleMalloc ==
    /\ cycle.p = NULL
    /\ cycle.count < MaxCycles
    /\ \E n \in (IF cycle.n = 0 THEN CycleSizes ELSE {cycle.n}) :
         \E r \in {mm_malloc(Big, n, TRUE)} :
             /\ r.bp # NULL
             /\ Install(r.s)
             /\ cycle' = [n |-> n, p |-> r.bp, count |-> cycle.count + 1,
                          grown |-> cycle.grown + (IF r.s.sbrk = "ok" THEN 1 ELSE 0),
                          ext |-> (r.s.sbrk = "ok"), before |-> Meta(Cur)]
             /\ last' = [op |-> "malloc", bp |-> NULL, size |-> n, ret |-> r.bp,
                         sbrk |-> r.s.sbrk, ub |-> "none"]
    /\ UNCHANGED <<live, hist, calls>>

CycleFree ==
    /\ cycle.p # NULL
    /\ \E s \in {mm_free(Big, cycle.p)} : Install(s)
    /\ cycle' = [cycle EXCEPT !.p = NULL]
    /\ last' = [op |-> "free", bp |-> cycle.p, size |-> 0, ret |-> NULL,
                sbrk |-> "none", ub |-> "none"]
    /\ UNCHANGED <<live, hist, calls>>

\* mm_realloc on a pointer the client holds, with requests up to several
\* times CHUNKSIZE
ResizeSizes == {100, 5000, 12000}

Resize ==
    /\ cycle = NoCycle
    /\ Sound
    /\ calls < MaxSetup
    /\ \E p \in DOMAIN live, n \in ResizeSizes, grant \in BOOLEAN, ub \in {"trap", "skip"} :
         \E r \in {mm_realloc(Big, p, n, grant, ub)} :
             /\ Install(r.s)
             /\ live' = IF r.bp = NULL \/ r.bp = p
                        THEN IF r.bp = p THEN (p :> n) @@ live ELSE live
                        ELSE (r.bp :> n) @@ [q \in DOMAIN live \ {p} |-> live[q]]
             /\ last' = [op |-> "realloc", bp |-> p, size |-> n, ret |-> r.bp,
                         sbrk |-> r.s.sbrk, ub |-> r.ub]
    /\ calls' = calls + 1
    /\ UNCHANGED <<hist, cycle>>

NextG == Acquire \/ Release \/ Resize

SpecG == Init /\ [][NextG]_vars

NextC == Acquire \/ Release \/ CycleMalloc \/ CycleFree

SpecC == Init /\ [][NextC]_vars

\* C11 as stated, for the cycles of a run: the heap size settles, there is
\* no run in which every cycle extends the heap.
C11_HeapSettles ==
    ~(cycle.count = MaxCycles /\ cycle.grown = MaxCycles)

\* C19: when mm_malloc(n) succeeds without extending the heap and mm_free is
\* called on the pointer it returned, the blocks of the walk (address, size,
\* allocated bit) and the members and order of the 16 free lists are what
\* they were before the mm_malloc.
C19_RoundTrip ==
    (cycle.n > 0 /\ cycle.p = NULL /\ ~cycle.ext) => Meta(Cur) = cycle.before

\* a round trip whose payload was put at the back of a free block that lay
\* between two allocated blocks or ends of the heap
C19_Witness ==
    /\ cycle.n > 0 /\ cycle.p = NULL /\ ~cycle.ext
    /\ last.op = "free"
    /\ \E b \in FreeBlocks(Cur) : b < last.bp /\ last.bp < b + Size(Cur, b)
    /\ \E b \in Range(Blocks(Cur)) : ~IsFree(Cur, b)

\* C20: when mm_realloc(p, size) takes the in-place path and returns
\* non-null, with or without a growth of the heap, the size in the header
\* and the footer of p is at least align_size(size).
C20_InPlaceSize ==
    [][(last'.op = "realloc" /\ last'.size > 0 /\ last'.ret # NULL
          /\ last'.ret = last'.bp
          /\ Size(Cur, last'.bp) < align_size(last'.size))
        => /\ Size(Aft, last'.bp) >= align_size(last'.size)
           /\ Tagged(Aft, last'.bp, Size(Aft, last'.bp), 1)]_vars

\* an in-place growth of the heap by more than CHUNKSIZE
C20_Witness ==
    /\ last.op = "realloc" /\ last.ret # NULL /\ last.ret = last.bp
    /\ last.sbrk = "ok"
    /\ Size(Cur, last.bp) >= align_size(last.size)
    /\ align_size(last.size) > 2 * CHUNKSIZE

(***************************************************************************)
(* index_of as a function of the size alone.  The sizes are those within   *)
(* MaxOff bytes of the upper bound of each class, of the bound above the   *)
(* last class, and the sizes from 1 on.                                    *)
(***************************************************************************)
MaxOff == 3

ClassBound(i) == (4 * WSIZE) * (2 ^ i)

SizesI ==
    {s \in {ClassBound(i) + d : i \in 0 .. LISTSIZE, d \in (0 - MaxOff) .. MaxOff} : s >= 1}
        \cup (1 .. MaxOff)

InitI ==
    /\ \E r \in {mm_init(Empty, TRUE)} :
         /\ r.ret = 0
         /\ mem = r.s.mem
         /\ mem_brk = r.s.brk
         /\ heap_ptr = r.s.heap_ptr
    /\ live = << >>
    /\ \E s \in SizesI :
         last = [op |-> "size", bp |-> NULL, size |-> s, ret |-> 0,
                 sbrk |-> "none", ub |-> "none"]
    /\ hist = Off
    /\ calls = 0
    /\ cycle = NoCycle

\* index_of runs on the size: ret is the index it returns
Classify ==
    /\ last.op = "size"
    /\ last' = [last EXCEPT !.op = "index_of", !.ret = index_of(last.size)]
    /\ UNCHANGED <<mem, mem_brk, heap_ptr, live, hist, calls, cycle>>

SpecI == InitI /\ [][Classify]_vars

\* the classes whose upper bound is at least s
Holding(s) == {i \in 0 .. LISTSIZE - 1 : ClassBound(i) >= s}

\* C21: for every size s >= 1, index_of(s) is the smallest i in 0..15 with
\* 4 * WSIZE * 2^i >= s, and 15 when s exceeds 4 * WSIZE * 2^14; the result is
\* always in 0 .. LISTSIZE - 1.
C21_IndexOf ==
    (last.op = "index_of" /\ last.size >= 1) =>
        /\ last.ret \in 0 .. LISTSIZE - 1
        /\ Holding(last.size) # {} =>
              /\ last.ret \in Holding(last.size)
              /\ \A i \in Holding(last.size) : last.ret <= i
        /\ last.size > ClassBound(LISTSIZE - 2) => last.ret = LISTSIZE - 1

\* a size above the bound of every class has been put in the last class
C21_Witness ==
    /\ last.op = "index_of"
    /\ last.size > ClassBound(LISTSIZE - 1)
    /\ last.ret = LISTSIZE - 1
====
